---- MODULE Spec2Model ----
(***************************************************************************)
(* Polar bar geometry of plotly.js: the angle helpers and SVG path         *)
(* builders of src/lib/angles.js, and the per-datum bar layout of          *)
(* src/traces/barpolar/plot.js.                                            *)
(*                                                                         *)
(* Number representation.  JavaScript numbers are modelled by integers:    *)
(*   - degrees are integers;                                               *)
(*   - radians are counted in units of pi/36 (5 degrees), so Math.PI is    *)
(*     36 and rad2deg multiplies by 5;                                     *)
(*   - Math.cos / Math.sin are tabulated at the multiples of pi/4 in       *)
(*     thousandths, so every Cartesian coordinate produced by pt() (and    *)
(*     the label centroid ct) is in thousandths of a pixel;                *)
(*   - null, undefined and NaN are three reserved integers outside the     *)
(*     range of every number the model computes.                           *)
(*                                                                         *)
(* An SVG path string is modelled by the sequence of its commands, each a  *)
(* tuple <<letter, operands...>> in the order the code concatenates them:  *)
(*   'M' + pt            <<"M", x, y>>                                     *)
(*   'L' + pt            <<"L", x, y>>                                     *)
(*   'A' + [r, r] + ' ' + [0, largeArc, cw] + ' ' + pt                     *)
(*                       <<"A", r, r, 0, largeArc, cw, x, y>>              *)
(*   'Z'                 <<"Z">>                                           *)
(***************************************************************************)
EXTENDS Integers, Sequences, FiniteSets, TLC

VARIABLES
    kfn,        \* kernel harness: name of the angles.js function last called
    kargs,      \* kernel harness: its arguments
    kout,       \* kernel harness: its return value
    cd,         \* calcdata of the bar trace: sequence of bar records (di)
    poffset,    \* cd[0].t.poffset: <<"scalar", v>> or <<"array", seq>>
    subplot,    \* the polar subplot: centre, vangles, axes, clip flag
    nodes,      \* the 'g.point' nodes of the trace, each with its path 'd'
    clipUrl,    \* clip-path set on the trace group by Drawing.setClipUrl
    pc,         \* "idle", or "each" while plot() is inside bars.each
    pending,    \* indices bars.each has not visited yet in this pass
    pathFn,     \* the closure returned by makePathFn for this pass
    pass,       \* during a pass, per visited index: the arguments pathFn
                \* was called with (<<>> when it was not called) and
                \* whether di.ct was assigned
    cdStart     \* cd as it was when the pass began

kvars == <<kfn, kargs, kout>>
bvars == <<cd, poffset, subplot, nodes, clipUrl, pc, pending, pathFn, pass,
           cdStart>>
vars == <<kfn, kargs, kout, cd, poffset, subplot, nodes, clipUrl, pc, pending,
          pathFn, pass, cdStart>>

----------------------------------------------------------------------------
(* JavaScript values                                                       *)

Null == 1000001
Undefined == 1000002
NaN == 1000003

Abs(x) == IF x < 0 THEN -x ELSE x

\* ToNumber as applied by '<' and '*': null converts to 0.
ToNum(x) == IF x = Null THEN 0 ELSE x

\* x || 0
OrZero(x) == IF x \in {Undefined, Null, NaN, 0} THEN 0 ELSE x

\* the % operator: the remainder takes the sign of the dividend
JsRem(a, n) == IF a >= 0 THEN a % n ELSE -((-a) % n)

\* Math.round(a / n) for n > 0: the nearest integer, a half rounded up
\* (towards +Infinity), i.e. floor(a / n + 1/2)
MathRoundDiv(a, n) == (2 * a + n) \div (2 * n)

\* Math.cos and Math.sin at the multiples of pi/4, in thousandths
CosTab == <<1000, 707, 0, -707, -1000, -707, 0, 707>>
SinTab == <<0, 707, 1000, 707, 0, -707, -1000, -707>>

----------------------------------------------------------------------------
(* src/lib/angles.js                                                       *)

PI == 36

Cos(a) == CosTab[((a % (2 * PI)) \div (PI \div 4)) + 1]
Sin(a) == SinTab[((a % (2 * PI)) \div (PI \div 4)) + 1]

deg2rad(deg) == (deg * PI) \div 180

rad2deg(rad) == (rad * 180) \div PI

\* faulty variant: a negative remainder is returned as it is
wrap360NoFix(deg) == JsRem(deg, 360)

wrap360(deg) ==
    LET out == JsRem(deg, 360)
    IN  IF out < 0 THEN out + 360 ELSE out

\* faulty variant: Math.floor in place of Math.round
wrap180Floor(deg) ==
    IF Abs(deg) > 180 THEN deg - (deg \div 360) * 360 ELSE deg

wrap180(deg) ==
    IF Abs(deg) > 180 THEN deg - MathRoundDiv(deg, 360) * 360 ELSE deg

isFullCircle(sector) ==
    LET arc == Abs(sector[2] - sector[1])
    IN  arc = 360

\* Math.atan2(Math.sin(d), Math.cos(d)): d brought into [-pi, pi].  At an odd
\* multiple of pi the floating-point sine keeps the sign of d, so the result
\* is +pi for positive d and -pi for negative d.
angleDelta(a, b) ==
    LET d == b - a
        m == d % (2 * PI)
    IN  IF m < PI THEN m
        ELSE IF m > PI THEN m - 2 * PI
        ELSE IF d > 0 THEN PI ELSE -PI

angleDist(a, b) == Abs(angleDelta(a, b))

\* faulty variant: the bounds are wrapped in the order given
isAngleInsideSectorUnsorted(a, sector) ==
    IF isFullCircle(sector) THEN TRUE
    ELSE
        LET s0 == wrap360(sector[1])
            s1w == wrap360(sector[2])
            s1 == IF s0 > s1w THEN s1w + 360 ELSE s1w
            a0 == wrap360(rad2deg(a))
            a1 == a0 + 360
        IN  (a0 >= s0 /\ a0 <= s1) \/ (a1 >= s0 /\ a1 <= s1)

isAngleInsideSector(a, sector) ==
    IF isFullCircle(sector) THEN TRUE
    ELSE
        LET lo == IF sector[1] < sector[2] THEN sector[1] ELSE sector[2]
            hi == IF sector[1] < sector[2] THEN sector[2] ELSE sector[1]
            s0 == wrap360(lo)
            s1w == wrap360(hi)
            s1 == IF s0 > s1w THEN s1w + 360 ELSE s1w
            a0 == wrap360(rad2deg(a))
            a1 == a0 + 360
        IN  (a0 >= s0 /\ a0 <= s1) \/ (a1 >= s0 /\ a1 <= s1)

isPtInsideSector(r, a, rRng, sector) ==
    IF ~isAngleInsideSector(a, sector) THEN FALSE
    ELSE
        LET r0 == IF rRng[1] < rRng[2] THEN rRng[1] ELSE rRng[2]
            r1 == IF rRng[1] < rRng[2] THEN rRng[2] ELSE rRng[1]
        IN  r >= r0 /\ r <= r1

\* faulty variant: a0 and a1 are taken in the order given
angularSpanUnsorted(isCircle, a0, a1) ==
    IF isCircle THEN <<0, 2 * PI>> ELSE <<a0, a1>>

\* _path, lines 131-143: <<aStart, aEnd>>
angularSpan(isCircle, a0, a1) ==
    IF isCircle THEN <<0, 2 * PI>>
    ELSE IF a0 < a1 THEN <<a0, a1>> ELSE <<a1, a0>>

\* _path, lines 145-151: <<rStart, rEnd>>; '<' converts null to 0
radialSpan(r0, r1) ==
    IF ToNum(r0) < ToNum(r1) THEN <<r0, r1>> ELSE <<r1, r0>>

\* _path, pt(r, a): svg coordinates, y increases downward
pt(r, a, cx, cy) ==
    <<ToNum(r) * Cos(a) + 1000 * cx, 1000 * cy - ToNum(r) * Sin(a)>>

\* _path, largeArc
largeArcOf(aStart, aEnd) == IF Abs(aEnd - aStart) <= PI THEN 0 ELSE 1

\* _path, arc(r, a, cw)
arc(r, a, cw, largeArc, cx, cy) ==
    <<"A", r, r, 0, largeArc, cw>> \o pt(r, a, cx, cy)

moveTo(p) == <<"M">> \o p
lineTo(p) == <<"L">> \o p
closePath == <<"Z">>

\* common to pathArc, pathSector and pathAnnulus
_path(r0, r1, a0, a1, cx0, cy0, isClosed) ==
    LET cx == OrZero(cx0)
        cy == OrZero(cy0)
        isCircle == isFullCircle(<<rad2deg(a0), rad2deg(a1)>>)
        aSpan == angularSpan(isCircle, a0, a1)
        aStart == aSpan[1]
        aMid == PI
        aEnd == aSpan[2]
        rSpan == radialSpan(r0, r1)
        rStart == rSpan[1]
        rEnd == rSpan[2]
        largeArc == largeArcOf(aStart, aEnd)
        P(r, a) == pt(r, a, cx, cy)
        A(r, a, cw) == arc(r, a, cw, largeArc, cx, cy)
    IN  IF isCircle
        THEN IF rStart = Null
             THEN << moveTo(P(rEnd, aStart)),
                     A(rEnd, aMid, 0),
                     A(rEnd, aEnd, 0), closePath >>
             ELSE << moveTo(P(rStart, aStart)),
                     A(rStart, aMid, 0),
                     A(rStart, aEnd, 0), closePath,
                     moveTo(P(rEnd, aStart)),
                     A(rEnd, aMid, 1),
                     A(rEnd, aEnd, 1), closePath >>
        ELSE IF rStart = Null
             THEN << moveTo(P(rEnd, aStart)), A(rEnd, aEnd, 0) >>
                  \o (IF isClosed # 0
                      THEN << lineTo(<<0, 0>>), closePath >>
                      ELSE << >>)
             ELSE << moveTo(P(rStart, aStart)),
                     lineTo(P(rEnd, aStart)),
                     A(rEnd, aEnd, 0),
                     lineTo(P(rStart, aEnd)),
                     A(rStart, aStart, 1), closePath >>

pathArc(r, a0, a1, cx, cy) == _path(Null, r, a0, a1, cx, cy, 0)

pathSector(r, a0, a1, cx, cy) == _path(Null, r, a0, a1, cx, cy, 1)

pathAnnulus(r0, r1, a0, a1, cx, cy) == _path(r0, r1, a0, a1, cx, cy, 1)

----------------------------------------------------------------------------
(* Collaborators of plot.js that live outside the two source files: the    *)
(* axis projections and the polygon helpers of plots/polar.  They are      *)
(* modelled from their documented contract.                                *)

\* fast-isnumeric on a number: true for the finite ones
isNumeric(x) == x \notin {NaN, Null, Undefined}

\* the + operator on numbers
Add(x, y) == IF x = NaN \/ y = NaN THEN NaN ELSE x + y

\* ===
StrictEq(x, y) == x # NaN /\ y # NaN /\ x = y

\* radialAxis.c2g: data -> distance from the start of the radial range.  A
\* "log" axis has no image for a non-positive datum; squaring stands in for
\* the strictly increasing non-linear scale.
radialC2g(v, sp) ==
    IF ~isNumeric(v) THEN NaN
    ELSE IF sp.radialType = "log"
         THEN IF v <= 0 THEN NaN ELSE v * v - sp.rmin
         ELSE v - sp.rmin

\* radialAxis.c2p: data -> pixels along the radius (two pixels per unit)
radialC2p(v, sp) ==
    LET g == radialC2g(v, sp)
    IN  IF g = NaN THEN NaN ELSE 2 * g

\* angularAxis.c2g: data (degrees) -> radians
angularC2g(v, sp) == IF ~isNumeric(v) THEN NaN ELSE deg2rad(v)

\* xa.c2p, ya.c2p: the Cartesian axes centred on the subplot
xaC2p(x, sp) == 1000 * sp.cxx + x
yaC2p(y, sp) == 1000 * sp.cyy - y

\* helpers.findEnclosingVertexAngles: the vertex at or before the angle,
\* going counter-clockwise, and the vertex that follows it
findEnclosingVertexAngles(a, vangles) ==
    LET ccw(v) == (a - v) % (2 * PI)
        i0 == CHOOSE i \in 1..Len(vangles) :
                  \A j \in 1..Len(vangles) :
                      ccw(vangles[i]) < ccw(vangles[j])
                      \/ (ccw(vangles[i]) = ccw(vangles[j]) /\ i <= j)
        i1 == (i0 % Len(vangles)) + 1
    IN  <<vangles[i0], vangles[i1]>>

\* helpers.pathPolygonAnnulus: the polygon-clipped ring, kept as one opaque
\* command that records the arguments it was built from
pathPolygonAnnulus(r0, r1, clip, vaBar, cxx, cyy) ==
    << <<"polygonAnnulus", r0, r1, clip[1], clip[2],
         vaBar[1], vaBar[2], vaBar[3], cxx, cyy>> >>

----------------------------------------------------------------------------
(* src/traces/barpolar/plot.js                                             *)

\* the 'M0,0Z' of a blank bar
blankPath == << moveTo(<<0, 0>>), closePath >>

\* makePathFn: the closure captures cxx and cyy and the branch taken
makePathFn(sp) ==
    [kind |-> IF sp.vangles # <<>> THEN "polygon" ELSE "annulus",
     cxx |-> sp.cxx, cyy |-> sp.cyy]

\* the closure of makePathFn for a polygonal grid
polygonPathFn(fn, r0, r1, _a0, _a1, sp) ==
    LET fwd == angleDelta(_a0, _a1) > 0
        a0 == IF fwd THEN _a0 ELSE _a1
        a1 == IF fwd THEN _a1 ELSE _a0
        tip == (a0 + a1) \div 2
        va0 == findEnclosingVertexAngles(a0, sp.vangles)[1]
        va1 == findEnclosingVertexAngles(a1, sp.vangles)[2]
        vaBar == <<va0, tip, va1>>
        clip == <<rad2deg(a0), rad2deg(a1)>>
    IN  pathPolygonAnnulus(r0, r1, clip, vaBar, fn.cxx, fn.cyy)

\* pathFn(r0, r1, a0, a1)
callPathFn(fn, r0, r1, a0, a1, sp) ==
    IF fn.kind = "polygon"
    THEN polygonPathFn(fn, r0, r1, a0, a1, sp)
    ELSE pathAnnulus(r0, r1, a0, a1, fn.cxx, fn.cyy)

\* faulty variant: a bar of zero angular width is not blank
isBlankNoTheta(rp0, rp1, thetag0, thetag1) ==
    \/ ~isNumeric(rp0) \/ ~isNumeric(rp1)
    \/ ~isNumeric(thetag0) \/ ~isNumeric(thetag1)
    \/ StrictEq(rp0, rp1)

\* the blank-bar test of bars.each
isBlank(rp0, rp1, thetag0, thetag1) ==
    \/ ~isNumeric(rp0) \/ ~isNumeric(rp1)
    \/ ~isNumeric(thetag0) \/ ~isNumeric(thetag1)
    \/ StrictEq(rp0, rp1) \/ StrictEq(thetag0, thetag1)

\* poffsetIsArray ? poffset[i] : poffset
offsetAt(poff, i) == IF poff[1] = "array" THEN poff[2][i] ELSE poff[2]

\* faulty variant: a bar starts where the bar before it was laid out to end
startAngleStacked(cdv, i, poff) ==
    IF i > 1 /\ cdv[i - 1].p1 # Undefined
    THEN cdv[i - 1].p1
    ELSE Add(cdv[i].p, offsetAt(poff, i))

\* di.p + (poffsetIsArray ? poffset[i] : poffset)
startAngle(cdv, i, poff) == Add(cdv[i].p, offsetAt(poff, i))

\* the body of bars.each for the datum at index i of the calcdata cdv:
\* the calcdata after the call, the 'd' given to the node, the arguments
\* pathFn was called with (<<>>: not called), and whether di.ct was assigned
eachBar(cdv, i, poff, sp, fn) ==
    LET di == cdv[i]
        p0 == startAngle(cdv, i, poff)
        p1 == Add(p0, di.w)
        s0 == di.b
        s1 == Add(s0, di.s)
        rp0 == radialC2p(s0, sp)
        rp1 == radialC2p(s1, sp)
        thetag0 == angularC2g(p0, sp)
        thetag1 == angularC2g(p1, sp)
        d1 == [di EXCEPT !.p0 = p0, !.p1 = p1, !.s0 = s0, !.s1 = s1,
                         !.rp0 = rp0, !.rp1 = rp1,
                         !.thetag0 = thetag0, !.thetag1 = thetag1]
    IN  IF isBlank(rp0, rp1, thetag0, thetag1)
        THEN [cd |-> [cdv EXCEPT ![i] = d1], d |-> blankPath,
              call |-> <<>>, ct |-> FALSE]
        ELSE
            LET rg1 == radialC2g(s1, sp)
                thetagMid == (thetag0 + thetag1) \div 2
                ct == << xaC2p(rg1 * Cos(thetagMid), sp),
                         yaC2p(rg1 * Sin(thetagMid), sp) >>
            IN  [cd |-> [cdv EXCEPT ![i] = [d1 EXCEPT !.ct = ct]],
                 d |-> callPathFn(fn, rp0, rp1, thetag0, thetag1, sp),
                 call |-> <<rp0, rp1, thetag0, thetag1>>, ct |-> TRUE]

\* faulty variant: no node is appended for an entering datum
joinNodesNoEnter(nodesv, n) ==
    [i \in 1..(IF n < Len(nodesv) THEN n ELSE Len(nodesv)) |-> nodesv[i]]

\* selectAll('g.point').data(Lib.identity), enter().append('g'),
\* exit().remove(): one node per datum, joined by index; a node that
\* stays keeps its path, a node that enters has none yet
joinNodes(nodesv, n) ==
    [i \in 1..n |-> IF i <= Len(nodesv) THEN nodesv[i] ELSE [d |-> <<>>]]

\* bars.each over the first n data in index order, as d3 runs it: the
\* calcdata and the paths of the n nodes after the loop
RECURSIVE plotInOrder(_, _, _, _, _)
plotInOrder(cdv, n, poff, sp, fn) ==
    IF n = 0 THEN [cd |-> cdv, d |-> <<>>]
    ELSE LET before == plotInOrder(cdv, n - 1, poff, sp, fn)
             r == eachBar(before.cd, n, poff, sp, fn)
         IN  [cd |-> r.cd, d |-> Append(before.d, r.d)]

\* Drawing.setClipUrl(plotGroup, ...)
clipUrlOf(sp) == IF sp.hasClipOnAxisFalse THEN "forTraces" ELSE "none"

----------------------------------------------------------------------------
(* Inputs                                                                  *)

MaxBars == 2

\* a bar as calc leaves it: raw fields set, nothing derived yet
rawBar(p, w, b, s) ==
    [p |-> p, w |-> w, b |-> b, s |-> s,
     p0 |-> Undefined, p1 |-> Undefined, s0 |-> Undefined, s1 |-> Undefined,
     rp0 |-> Undefined, rp1 |-> Undefined,
     thetag0 |-> Undefined, thetag1 |-> Undefined, ct |-> <<>>]

\* the kinds of bar a trace is made of, blank ones before and after a
\* drawable one
SampleBars ==
    << rawBar(90, 90, NaN, 2),    \* no base
       rawBar(0, 0, 1, 2),        \* zero width
       rawBar(0, 90, 1, 2),       \* quarter ring from radius 1 to 3
       rawBar(0, 360, 0, 2),      \* full circle; off a log axis
       rawBar(180, 90, 1, 0) >>   \* zero length

\* traces of 1..MaxBars bars, the kinds in the order of SampleBars
Calcdata ==
    UNION { { [i \in 1..n |-> SampleBars[k[i]]] :
                k \in { f \in [1..n -> 1..Len(SampleBars)] :
                          \A i \in 1..(n - 1) : f[i] <= f[i + 1] } } :
            n \in 1..MaxBars }

\* t.poffset for a trace of n bars: one offset, or one per bar
PoffsetKinds == {"scalar", "array"}
poffsetOf(kind, n) ==
    IF kind = "array"
    THEN <<"array", [i \in 1..n |-> 90 * (i - 1)]>>
    ELSE <<"scalar", -45>>

Square == <<0, PI \div 2, PI, 3 * (PI \div 2)>>

RadialTypes == {"linear", "log"}

Subplots ==
    [cxx : {1}, cyy : {2}, vangles : {<<>>, Square},
     radialType : RadialTypes, rmin : {0},
     hasClipOnAxisFalse : BOOLEAN]

noFn == [kind |-> "none", cxx |-> 0, cyy |-> 0]

----------------------------------------------------------------------------
(* plot(gd, subplot, cdbar) for one bar trace                              *)

Init ==
    /\ kfn = "none" /\ kargs = <<>> /\ kout = 0
    /\ cd \in Calcdata
    /\ \E kind \in PoffsetKinds : poffset = poffsetOf(kind, Len(cd))
    /\ subplot \in Subplots
    /\ nodes = <<>>
    /\ clipUrl = "none"
    /\ pc = "idle"
    /\ pending = {}
    /\ pathFn = noFn
    /\ pass = <<>>
    /\ cdStart = <<>>

\* plot() up to bars.each: the path strategy is chosen, the nodes are joined
BeginPlot ==
    /\ pc = "idle"
    /\ pathFn' = makePathFn(subplot)
    /\ nodes' = joinNodes(nodes, Len(cd))
    /\ cdStart' = cd
    /\ pending' = 1..Len(cd)
    /\ pass' = <<>>
    /\ pc' = "each"
    /\ UNCHANGED <<kfn, kargs, kout, cd, poffset, subplot, clipUrl>>

\* one call of the function given to bars.each
LayoutBar(i) ==
    /\ pc = "each"
    /\ i \in pending
    /\ LET r == eachBar(cd, i, poffset, subplot, pathFn)
       IN  /\ cd' = r.cd
           /\ nodes' = [nodes EXCEPT ![i] = [d |-> r.d]]
           /\ pass' = [j \in (DOMAIN pass) \cup {i} |->
                          IF j = i THEN [call |-> r.call, ct |-> r.ct]
                          ELSE pass[j]]
    /\ pending' = pending \ {i}
    /\ UNCHANGED <<kfn, kargs, kout, poffset, subplot, clipUrl, pc, pathFn,
                   cdStart>>

\* after bars.each: the trace group is clipped, plot() returns
EndPlot ==
    /\ pc = "each"
    /\ pending = {}
    /\ clipUrl' = clipUrlOf(subplot)
    /\ pc' = "idle"
    /\ pathFn' = noFn
    /\ pass' = <<>>
    /\ cdStart' = <<>>
    /\ UNCHANGED <<kfn, kargs, kout, cd, poffset, subplot, nodes, pending>>

\* between passes: the radial axis changes (a radial drag, a relayout);
\* the calcdata records are kept
Relayout ==
    /\ pc = "idle"
    /\ \E t \in RadialTypes \ {subplot.radialType} :
           subplot' = [subplot EXCEPT !.radialType = t]
    /\ UNCHANGED <<kfn, kargs, kout, cd, poffset, nodes, clipUrl, pc, pending,
                   pathFn, pass, cdStart>>

\* between passes: the data change and calc makes new records; the nodes
\* of the previous pass stay in the document
Recalc ==
    /\ pc = "idle"
    /\ cd' \in Calcdata
    /\ poffset' = poffsetOf(poffset[1], Len(cd'))
    /\ UNCHANGED <<kfn, kargs, kout, subplot, nodes, clipUrl, pc, pending,
                   pathFn, pass, cdStart>>

\* bars.each visits the nodes in index order
VisitNext ==
    \E i \in pending : (\A k \in pending : i <= k) /\ LayoutBar(i)

\* the same loop body run over the bars in any order
VisitAny == \E i \in pending : LayoutBar(i)

Next == BeginPlot \/ VisitNext \/ EndPlot \/ Relayout \/ Recalc

Spec == Init /\ [][Next]_vars

NextAnyOrder == BeginPlot \/ VisitAny \/ EndPlot \/ Relayout \/ Recalc

SpecAnyOrder == Init /\ [][NextAnyOrder]_vars

----------------------------------------------------------------------------
(* The exports of angles.js called on their own                            *)

MaxTurn == 2
MaxR == 2

\* degrees over MaxTurn turns either way
Degrees == (-360 * MaxTurn)..(360 * MaxTurn)

\* sector bounds in degrees: the multiples of 45 and the bounds of the
\* 20-degree span through 0
SectorDegs ==
    { 45 * k : k \in (-4 * MaxTurn)..(4 * MaxTurn) } \cup {-10, 10, 350, 370}

\* radians in steps of pi/36
Radians == (-PI * MaxTurn)..(PI * MaxTurn)

\* radians in steps of pi/4, where Cos and Sin are tabulated
PathAngles == { (PI \div 4) * k : k \in (-4 * MaxTurn)..(4 * MaxTurn) }

Radii == (-MaxR)..MaxR

\* cx, cy as passed by a caller: left out, the origin, or another point
Centers == { <<Undefined, Undefined>>, <<0, 0>>, <<1, 2>>, <<-1, 0>> }

InitKernel ==
    /\ kfn = "none" /\ kargs = <<>> /\ kout = 0
    /\ cd = <<>>
    /\ poffset = <<"scalar", 0>>
    /\ subplot = [cxx |-> 0, cyy |-> 0, vangles |-> <<>>,
                  radialType |-> "linear", rmin |-> 0,
                  hasClipOnAxisFalse |-> FALSE]
    /\ nodes = <<>>
    /\ clipUrl = "none"
    /\ pc = "idle"
    /\ pending = {}
    /\ pathFn = noFn
    /\ pass = <<>>
    /\ cdStart = <<>>

\* a behaviour makes one call: nothing has been called yet
Idle == kfn = "none"

Returns(fn, args, out) ==
    /\ kfn' = fn
    /\ kargs' = args
    /\ kout' = out
    /\ UNCHANGED bvars

CallDeg2rad ==
    Idle /\ \E d \in { 5 * k : k \in (-72 * MaxTurn)..(72 * MaxTurn) } :
        Returns("deg2rad", <<d>>, deg2rad(d))

CallRad2deg == Idle /\ \E a \in Radians : Returns("rad2deg", <<a>>, rad2deg(a))

CallWrap360 == Idle /\ \E d \in Degrees : Returns("wrap360", <<d>>, wrap360(d))

CallWrap180 == Idle /\ \E d \in Degrees : Returns("wrap180", <<d>>, wrap180(d))

CallIsFullCircle ==
    Idle /\ \E s0 \in SectorDegs, s1 \in SectorDegs :
        Returns("isFullCircle", <<(<<s0, s1>>)>>, isFullCircle(<<s0, s1>>))

CallAngleDelta ==
    Idle /\ \E a \in PathAngles, b \in PathAngles :
        Returns("angleDelta", <<a, b>>, angleDelta(a, b))

CallAngleDist ==
    Idle /\ \E a \in PathAngles, b \in PathAngles :
        Returns("angleDist", <<a, b>>, angleDist(a, b))

CallIsAngleInsideSector ==
    Idle /\ \E a \in Radians, s0 \in SectorDegs, s1 \in SectorDegs :
        Returns("isAngleInsideSector", <<a, <<s0, s1>>>>,
                isAngleInsideSector(a, <<s0, s1>>))

CallIsPtInsideSector ==
    Idle /\ \E r \in Radii, a \in { (PI \div 2) * k : k \in 0..3 },
       r0 \in Radii, r1 \in Radii,
       s0 \in {-10, 10, 350, 0, 360}, s1 \in {-10, 10, 350, 0, 360} :
        Returns("isPtInsideSector", <<r, a, <<r0, r1>>, <<s0, s1>>>>,
                isPtInsideSector(r, a, <<r0, r1>>, <<s0, s1>>))

CallPathArc ==
    Idle /\ \E r \in Radii, a0 \in PathAngles, a1 \in PathAngles, c \in Centers :
        Returns("pathArc", <<r, a0, a1, c[1], c[2]>>,
                pathArc(r, a0, a1, c[1], c[2]))

CallPathSector ==
    Idle /\ \E r \in Radii, a0 \in PathAngles, a1 \in PathAngles, c \in Centers :
        Returns("pathSector", <<r, a0, a1, c[1], c[2]>>,
                pathSector(r, a0, a1, c[1], c[2]))

CallPathAnnulus ==
    Idle /\ \E r0 \in Radii, r1 \in Radii, a0 \in PathAngles, a1 \in PathAngles,
       c \in Centers :
        Returns("pathAnnulus", <<r0, r1, a0, a1, c[1], c[2]>>,
                pathAnnulus(r0, r1, a0, a1, c[1], c[2]))

NextKernel ==
    \/ CallDeg2rad \/ CallRad2deg \/ CallWrap360 \/ CallWrap180
    \/ CallIsFullCircle \/ CallAngleDelta \/ CallAngleDist
    \/ CallIsAngleInsideSector \/ CallIsPtInsideSector
    \/ CallPathArc \/ CallPathSector \/ CallPathAnnulus

SpecKernel == InitKernel /\ [][NextKernel]_vars

----------------------------------------------------------------------------
(* Properties of the angle helpers                                         *)

\* C1, as stated: with the sector [350, 10], isAngleInsideSector returns
\* true for 0 and 355 degrees and false for 180 degrees.
C1_AsStated ==
    (kfn = "isAngleInsideSector" /\ kargs[2] = <<350, 10>>) =>
        /\ kargs[1] \in {deg2rad(0), deg2rad(355)} => kout = TRUE
        /\ kargs[1] = deg2rad(180) => kout = FALSE

\* C1, amended: the bounds are sorted before they are wrapped, so [350, 10]
\* is the span from 10 to 350 degrees: 0 and 355 degrees are outside it and
\* 180 degrees is inside.  The 20-degree span through 0 is the one given in
\* ascending order, [-10, 10] or [350, 370]: 0 and 355 degrees are inside
\* it and 180 degrees is outside.
C1_SortedSector ==
    kfn = "isAngleInsideSector" =>
        /\ kargs[2] \in {<<350, 10>>, <<10, 350>>} =>
              /\ kargs[1] \in {deg2rad(0), deg2rad(355)} => kout = FALSE
              /\ kargs[1] = deg2rad(180) => kout = TRUE
        /\ kargs[2] \in {<<-10, 10>>, <<10, -10>>, <<350, 370>>} =>
              /\ kargs[1] \in {deg2rad(0), deg2rad(355)} => kout = TRUE
              /\ kargs[1] = deg2rad(180) => kout = FALSE

C1_Witness ==
    /\ kfn = "isAngleInsideSector"
    /\ kargs = <<deg2rad(355), <<350, 10>>>>
    /\ kout = FALSE

\* C2, as stated: wrap180(d) lies in (-180, 180] and wrap180(180) is 180.
C2_AsStated ==
    kfn = "wrap180" =>
        /\ kout > -180 /\ kout <= 180
        /\ kargs[1] = 180 => kout = 180

\* C2, amended: wrap180(d) lies in the closed interval [-180, 180] and
\* differs from d by a multiple of 360; wrap180(180) is 180, and every other
\* odd multiple of 180 (-180, 540, -540, ...) gives -180.
C2_ClosedInterval ==
    kfn = "wrap180" =>
        /\ kout >= -180 /\ kout <= 180
        /\ (kout - kargs[1]) % 360 = 0
        /\ kargs[1] = 180 => kout = 180
        /\ (kargs[1] % 360 = 180 /\ kargs[1] # 180) => kout = -180

C2_Witness == kfn = "wrap180" /\ kargs[1] = 540 /\ kout = -180

\* C3: wrap360(d) lies in [0, 360) and is the same for d + 360 k, for every
\* integer k.
C3_Wrap360 ==
    kfn = "wrap360" =>
        /\ kout >= 0 /\ kout < 360
        /\ \A k \in (-MaxTurn)..MaxTurn : wrap360(kargs[1] + 360 * k) = kout

C3_Witness == kfn = "wrap360" /\ kargs[1] = -370 /\ kout = 350

----------------------------------------------------------------------------
(* Properties of the path builders                                         *)

\* the commands of a path with the given letter
Commands(path, letter) == { i \in 1..Len(path) : path[i][1] = letter }

\* the span of a call is a full circle
FullTurn(a0, a1) == Abs(a1 - a0) = 2 * PI

\* C8, as stated (for a positive radius): over less than a full circle,
\* pathSector is the move and the arc of pathArc followed by a straight
\* segment to the centre (cx, cy) and the closing of the path.
C8_AsStated ==
    (kfn = "pathSector" /\ kargs[1] > 0 /\ ~FullTurn(kargs[2], kargs[3])) =>
        LET open == pathArc(kargs[1], kargs[2], kargs[3], kargs[4], kargs[5])
        IN  /\ Len(open) = 2 /\ open[1][1] = "M" /\ open[2][1] = "A"
            /\ kout = open \o << lineTo(<<1000 * OrZero(kargs[4]),
                                           1000 * OrZero(kargs[5])>>),
                                 closePath >>

\* C9, as stated: for every signed radius r, pathArc and pathSector emit one
\* arc command over less than a full circle and one closed loop of two arc
\* commands over a full circle, and every arc has the radius r.
C9_AsStated ==
    kfn \in {"pathArc", "pathSector"} =>
        LET arcs == Commands(kout, "A")
            full == FullTurn(kargs[2], kargs[3])
        IN  /\ Cardinality(arcs) = (IF full THEN 2 ELSE 1)
            /\ \A i \in arcs : kout[i][2] = kargs[1] /\ kout[i][3] = kargs[1]
            /\ full => /\ Cardinality(Commands(kout, "M")) = 1
                       /\ Cardinality(Commands(kout, "Z")) = 1

\* C10: over a full circle pathAnnulus emits two closed subpaths, each of
\* two half-circle arcs that meet opposite the start, the loop at the inner
\* radius with one sweep flag and the loop at the outer radius with the
\* other; over any other span it emits one closed subpath from M to Z with
\* two arcs, one per radius, of opposite sweep flags; and swapping r0 with
\* r1, or a0 with a1, gives the same path.
C10_Annulus ==
    kfn = "pathAnnulus" =>
        LET r0 == kargs[1]
            r1 == kargs[2]
            a0 == kargs[3]
            a1 == kargs[4]
            cx == OrZero(kargs[5])
            cy == OrZero(kargs[6])
            rIn == IF r0 < r1 THEN r0 ELSE r1
            rOut == IF r0 < r1 THEN r1 ELSE r0
            p == kout
            loop(k, r) ==
                /\ p[k][1] = "M" /\ p[k + 1][1] = "A" /\ p[k + 2][1] = "A"
                /\ p[k + 3] = closePath
                /\ p[k + 1][2] = r /\ p[k + 2][2] = r
                /\ p[k + 1][6] = p[k + 2][6]
                /\ <<p[k + 1][7], p[k + 1][8]>> =
                       <<2 * 1000 * cx - p[k][2], p[k][3]>>
                /\ <<p[k + 2][7], p[k + 2][8]>> = <<p[k][2], p[k][3]>>
        IN  /\ FullTurn(a0, a1) =>
                /\ Len(p) = 8
                /\ loop(1, rIn) /\ loop(5, rOut)
                /\ p[2][6] # p[6][6]
            /\ ~FullTurn(a0, a1) =>
                /\ p[1][1] = "M" /\ p[Len(p)] = closePath
                /\ Commands(p, "M") = {1} /\ Commands(p, "Z") = {Len(p)}
                /\ \E i, j \in Commands(p, "A") :
                       /\ Commands(p, "A") = {i, j} /\ i < j
                       /\ p[i][2] = rOut /\ p[j][2] = rIn
                       /\ p[i][6] # p[j][6]
            /\ pathAnnulus(r1, r0, a0, a1, kargs[5], kargs[6]) = p
            /\ pathAnnulus(r0, r1, a1, a0, kargs[5], kargs[6]) = p

C10_Witness ==
    /\ kfn = "pathAnnulus"
    /\ kargs[1] > kargs[2]
    /\ kargs[3] - kargs[4] = 2 * PI
    /\ Len(kout) = 8

----------------------------------------------------------------------------
(* Properties of the bar layout                                            *)

\* the indices bars.each has visited in the pass in progress
Visited == IF pc = "each" THEN (1..Len(cd)) \ pending ELSE {}

\* a bar whose projected extents are not all finite, or are equal
Degenerate(di) ==
    \/ {di.rp0, di.rp1, di.thetag0, di.thetag1} \cap {NaN, Undefined} # {}
    \/ di.rp0 = di.rp1
    \/ di.thetag0 = di.thetag1

\* C4: a visited bar has the path 'M0,0Z' exactly when it is degenerate; for
\* a degenerate bar the path strategy is not called and no centroid is
\* computed; a bar that is not degenerate has the path the strategy returns
\* for (rp0, rp1, thetag0, thetag1).
C4_BlankIffDegenerate ==
    \A i \in Visited :
        LET di == cd[i]
        IN  /\ (nodes[i].d = blankPath) <=> Degenerate(di)
            /\ Degenerate(di) => (pass[i].call = <<>> /\ ~pass[i].ct)
            /\ ~Degenerate(di) =>
                  /\ pass[i].call = <<di.rp0, di.rp1, di.thetag0, di.thetag1>>
                  /\ pass[i].ct
                  /\ nodes[i].d = callPathFn(pathFn, di.rp0, di.rp1,
                                             di.thetag0, di.thetag1, subplot)

C4_Witness ==
    \E i \in Visited, j \in Visited :
        /\ nodes[i].d = blankPath /\ cd[i].thetag0 = cd[i].thetag1
        /\ cd[i].rp0 # cd[i].rp1 /\ cd[i].rp0 # NaN
        /\ pass[j].ct /\ nodes[j].d # blankPath

\* C5, as stated: after a pass every derived field of a record, the
\* centroid included, is what the raw fields and the projections of that
\* pass give; a bar that is degenerate in the pass has no centroid.
C5_AsStated ==
    \A i \in Visited :
        LET fresh == [j \in 1..Len(cd) |->
                         rawBar(cd[j].p, cd[j].w, cd[j].b, cd[j].s)]
        IN  cd[i] = eachBar(fresh, i, poffset, subplot, pathFn).cd[i]

\* C6: in a pass there is one node per record, whatever the mix of blank and
\* drawable bars; a blank bar does not stop the loop; once a record is
\* visited its node, at the same index, has the record's path.
C6_NodePerRecord ==
    pc = "each" =>
        /\ Len(nodes) = Len(cd)
        /\ pending # {} => ENABLED VisitNext
        /\ \A i \in Visited :
               nodes[i].d =
                   IF Degenerate(cd[i]) THEN blankPath
                   ELSE callPathFn(pathFn, cd[i].rp0, cd[i].rp1,
                                   cd[i].thetag0, cd[i].thetag1, subplot)

C6_Witness ==
    /\ pc = "each" /\ pending = {}
    /\ Len(nodes) = 2
    /\ nodes[1].d = blankPath
    /\ nodes[2].d # blankPath

\* C7: whatever the order in which the bars of a pass are visited, a visited
\* bar has the derived fields and the path that the loop in index order
\* gives it, a bar not visited yet is untouched, and the path strategy is
\* the one chosen before the loop.
C7_OrderIndependent ==
    pc = "each" =>
        LET ref == plotInOrder(cdStart, Len(cdStart), poffset, subplot,
                               makePathFn(subplot))
        IN  /\ pathFn = makePathFn(subplot)
            /\ \A i \in Visited : cd[i] = ref.cd[i] /\ nodes[i].d = ref.d[i]
            /\ \A i \in pending : cd[i] = cdStart[i]

C7_Witness ==
    /\ pc = "each"
    /\ Len(cd) = 2
    /\ pending = {1}
    /\ pass[2].ct

====
